---------------------------- MODULE Spec2Model ----------------------------
(***************************************************************************)
(* spell-sweep: the BK-tree (src/src/bk_tree.rs), the Bloom filter         *)
(* (src/src/bloom_filter.rs) and their persistence, as state machines.     *)
(*                                                                         *)
(* A string is a sequence of Unicode scalar values (natural numbers); a    *)
(* Rust Result / panic is a record [kind, val] with kind "Ok", "Err" or   *)
(* "Panic".  The record of a distance also keeps usize, the value of       *)
(* dp[m + 1][n + 1] before its conversion to u8.                           *)
(***************************************************************************)
EXTENDS Integers, Sequences, FiniteSets, TLC

(***************************************************************************)
(* Bounds of the model.                                                    *)
(***************************************************************************)
\* longest word of the small vocabulary (Dictionary.max_word_length)
MaxLen == 3
\* capacity of the preallocated node array (max_words of BKTree::new)
MaxWords == 3
\* largest tolerance a query is made with
MaxTol == 2
\* longest string the distance function alone is applied to
MaxStr == 3
\* largest expected item count a Bloom filter is made for
MaxItems == 2
\* largest digest of the hash function
MaxDigest == 2

(***************************************************************************)
(* Integer types of the program.                                           *)
(***************************************************************************)
\* number of values of u8, the distance type
U8Range == 256
\* alphabet_length the program is run with
AlphabetLength == 255
\* f32::consts::LN_2 = 0.6931..., as a ratio
LN_2 == [num |-> 6931, den |-> 10000]

Min(x, y) == IF x <= y THEN x ELSE y
Max(x, y) == IF x >= y THEN x ELSE y

\* usize -> u8 conversion by `as`: the low 8 bits
AsU8(x) == x % U8Range

\* bytes one char takes in a Rust String (UTF-8)
Utf8Len(c) == IF c < 128 THEN 1 ELSE IF c < 2048 THEN 2 ELSE IF c < 65536 THEN 3 ELSE 4

\* str::len(): the length in bytes
RECURSIVE ByteLenRange(_, _, _)
ByteLenRange(s, lo, hi) ==
    IF lo > hi THEN 0
    ELSE IF lo = hi THEN Utf8Len(s[lo])
    ELSE LET mid == (lo + hi) \div 2
         IN  ByteLenRange(s, lo, mid) + ByteLenRange(s, mid + 1, hi)
ByteLen(s) == ByteLenRange(s, 1, Len(s))

\* the string made of n copies of char c
Rep(c, n) == [i \in 1..n |-> c]

Ok(v) == [kind |-> "Ok", val |-> v]
Err == [kind |-> "Err", val |-> 0]
Panic == [kind |-> "Panic", val |-> 0]

\* the set of the elements of a sequence
Range(seq) == {seq[i] : i \in DOMAIN seq}

(***************************************************************************)
(* BKTree::get_damerau_levenshtein_distance.  dp is kept as the sequence   *)
(* of its finished rows (rows[r + 1] is dp[r], row[c + 1] is dp[r][c]) and *)
(* the row being filled; da is kept as the function from the chars it was  *)
(* set for to their value, every other entry being the initial 0.          *)
(***************************************************************************)
\* dp[0][..]: every cell infinity
DpRow0(n, infinity) == [c \in 1..(n + 2) |-> infinity]
\* dp[1][..]: infinity, then 0..n
DpRow1(n, infinity) == [c \in 1..(n + 2) |-> IF c = 1 THEN infinity ELSE c - 2]

\* the cell dp[i + 1][j + 1] of lines 78-87
\* da[c]
DaGet(da, c) == IF c \in DOMAIN da THEN da[c] ELSE 0
\* da[c] = i
DaSet(da, c, i) == [x \in DOMAIN da \cup {c} |-> IF x = c THEN i ELSE da[x]]

DpCell(rows, cur, i, j, k, l, cost) ==
    Min(Min(rows[i + 1][j + 1] + cost, cur[j + 1] + 1),
        Min(rows[i + 1][j + 2] + 1,
            rows[k + 1][l + 1] + (i - k - 1) + 1 + (j - l - 1)))

\* one pass of the loop body of lines 69-88, for column j of row i + 1;
\* st.cur is dp[i + 1][0..j], st.db is db
DpInnerStep(a, b, al, da, rows, i, j, st) ==
    IF st.kind # "Ok" THEN st
    ELSE IF j > Len(b) THEN [st EXCEPT !.kind = "Err"]
    ELSE IF b[j] >= al THEN [st EXCEPT !.kind = "Panic"]
    ELSE IF i > Len(a) THEN [st EXCEPT !.kind = "Err"]
    ELSE LET k == DaGet(da, b[j])
             l == st.db
             cost == IF a[i] = b[j] THEN 0 ELSE 1
             cell == DpCell(rows, st.cur, i, j, k, l, cost)
         IN  [kind |-> "Ok",
              db |-> IF cost = 0 THEN j ELSE st.db,
              cur |-> Append(st.cur, cell)]

\* the passes lo..hi of the loop over j, in order (split in halves to keep
\* the evaluation shallow; the passes run in the order lo, lo + 1, .., hi)
RECURSIVE DpInner(_, _, _, _, _, _, _, _, _)
DpInner(a, b, al, da, rows, i, lo, hi, st) ==
    IF lo > hi THEN st
    ELSE IF lo = hi THEN DpInnerStep(a, b, al, da, rows, i, lo, st)
    ELSE LET mid == (lo + hi) \div 2
             first == DpInner(a, b, al, da, rows, i, lo, mid, st)
         IN  IF first.kind # "Ok" THEN first
             ELSE DpInner(a, b, al, da, rows, i, mid + 1, hi, first)

\* one pass of the loop body of lines 67-90, for row i + 1;
\* st.rows is dp[0..i], st.da is da
DpOuterStep(a, b, al, n, infinity, i, st) ==
    IF st.kind # "Ok" THEN st
    ELSE LET row == DpInner(a, b, al, st.da, st.rows, i, 1, n,
                            [kind |-> "Ok", db |-> 0, cur |-> <<infinity, i>>])
         IN  IF row.kind # "Ok" THEN [st EXCEPT !.kind = row.kind]
             ELSE IF i > Len(a) THEN [st EXCEPT !.kind = "Err"]
             ELSE IF a[i] >= al THEN [st EXCEPT !.kind = "Panic"]
             ELSE [kind |-> "Ok",
                   da |-> DaSet(st.da, a[i], i),
                   rows |-> Append(st.rows, row.cur)]

\* the passes lo..hi of the loop over i, in order
RECURSIVE DpOuter(_, _, _, _, _, _, _, _)
DpOuter(a, b, al, n, infinity, lo, hi, st) ==
    IF lo > hi THEN st
    ELSE IF lo = hi THEN DpOuterStep(a, b, al, n, infinity, lo, st)
    ELSE LET mid == (lo + hi) \div 2
             first == DpOuter(a, b, al, n, infinity, lo, mid, st)
         IN  IF first.kind # "Ok" THEN first
             ELSE DpOuter(a, b, al, n, infinity, mid + 1, hi, first)

get_damerau_levenshtein_distance(a, b, alphabet_length) ==
    LET m == ByteLen(a)
        n == ByteLen(b)
        infinity == m + n
        st == DpOuter(a, b, alphabet_length, n, infinity, 1, m,
                      [kind |-> "Ok",
                       da |-> <<>>,
                       rows |-> <<DpRow0(n, infinity), DpRow1(n, infinity)>>])
    IN  IF st.kind = "Ok"
        THEN [kind |-> "Ok", val |-> AsU8(st.rows[m + 2][n + 2]),
              usize |-> st.rows[m + 2][n + 2]]
        ELSE [kind |-> st.kind, val |-> 0, usize |-> 0]

(***************************************************************************)
(* The strings of the model.                                               *)
(***************************************************************************)
\* the words of the small vocabularies: "", a, b, ab, ba, abc, bca, and longer ones
WordPool ==
    { <<>>, <<97>>, <<98>>, <<97, 98>>, <<98, 97>>, <<97, 98, 99>>, <<98, 99, 97>>,
      <<97, 98, 99, 97>>, <<98, 97, 98, 97, 98>> }
ShortWords == {w \in WordPool : Len(w) <= MaxLen}
\* a word as long as the distance type has values, and a vocabulary holding it
LongWord == Rep(97, U8Range)
LongWords == {<<>>, <<97>>, <<98>>, <<98, 97>>, LongWord}

(***************************************************************************)
(* The reference: the Damerau-Levenshtein distance as the least number of  *)
(* single edits (insert a char, delete a char, substitute a char, swap two *)
(* adjacent chars) that turn a into b, each edit applied to the string the *)
(* edits before it left, found by a breadth-first search.  Chars outside a *)
(* and b and strings longer than both never shorten a path.                *)
(***************************************************************************)
Deletions(s) ==
    {SubSeq(s, 1, i - 1) \o SubSeq(s, i + 1, Len(s)) : i \in 1..Len(s)}
Insertions(s, chars) ==
    {SubSeq(s, 1, i) \o <<c>> \o SubSeq(s, i + 1, Len(s)) : i \in 0..Len(s), c \in chars}
Substitutions(s, chars) ==
    {[s EXCEPT ![i] = c] : i \in 1..Len(s), c \in chars}
Transpositions(s) ==
    {[s EXCEPT ![i] = s[i + 1], ![i + 1] = s[i]] : i \in 1..(Len(s) - 1)}
Edits(s, chars, maxlen) ==
    Deletions(s) \cup Substitutions(s, chars) \cup Transpositions(s)
        \cup (IF Len(s) < maxlen THEN Insertions(s, chars) ELSE {})

RECURSIVE RefSearch(_, _, _, _, _, _)
RefSearch(frontier, seen, target, k, chars, maxlen) ==
    IF target \in frontier THEN k
    ELSE LET reached == UNION {Edits(s, chars, maxlen) : s \in frontier} \ seen
         IN  RefSearch(reached, seen \cup reached, target, k + 1, chars, maxlen)

RefDistance(a, b) ==
    RefSearch({a}, {a}, b, 0, Range(a) \cup Range(b), Max(Len(a), Len(b)))

(***************************************************************************)
(* State.                                                                  *)
(***************************************************************************)
VARIABLES
    max_word_length,   \* BKTree.max_word_length
    alphabet_length,   \* BKTree.alphabet_length
    tree,              \* BKTree.tree: the preallocated nodes, tree[i + 1] is slot i
    size,              \* BKTree.size: the next free slot
    added,             \* history: the words passed to add so far
    overflow_checks,   \* the build: u8 addition panics on overflow (debug) or wraps
    words,             \* Dictionary.words: the vocabulary the tree is built for
    ret,               \* the last call: [op, word, other, tol, res]
    distances,         \* get_damerau_levenshtein_distance of the model's strings,
                       \* computed once: a table of the pure function
    reference,         \* RefDistance of the model's strings, computed once
    bloom,             \* BloomFilter: [fp_prob, size, hash_count, bitarray]
    hasher,            \* utils::hash_with_seed as a table: <<input, seed>> -> digest
    inserted,          \* history: the items passed to insert so far
    bk_file,           \* the file of the BKTree: [exists, bytes, wrote, intact]
    bf_file            \* the file of the BloomFilter, likewise; wrote is the
                       \* value to_file wrote (history), intact whether the
                       \* bytes are still the ones it wrote (history)

tables == <<distances, reference>>
bf == <<bloom, hasher, inserted>>
files == <<bk_file, bf_file>>
bk == <<max_word_length, alphabet_length, overflow_checks, tree, size>>

\* the call self.get_damerau_levenshtein_distance(a, b)
Distance(a, b, al) ==
    IF <<a, b>> \in DOMAIN distances THEN distances[<<a, b>>]
    ELSE get_damerau_levenshtein_distance(a, b, al)

\* Option<T>
None == [some |-> FALSE, val |-> <<>>]
\* Option<u32>::None, of a child reference
NoRef == [some |-> FALSE, val |-> 0]
Some(v) == [some |-> TRUE, val |-> v]

\* Node::new
NodeNew(word, mwl) == [word |-> word, next |-> [d \in 1..(mwl + 1) |-> NoRef]]

\* BKTree::new: the fields (tree, size)
BKTreeNew(mwl, max_words) ==
    [tree |-> [s \in 1..max_words |-> NodeNew(None, mwl)], size |-> 0]

\* lines 100-103, 130-133, 156-159: the word of a slot, "" when it is None
CurrentWord(t, current) ==
    IF t[current + 1].word.some THEN t[current + 1].word.val ELSE <<>>

(***************************************************************************)
(* BKTree::add, from the node `current` on.  The result is                 *)
(* [kind, tree, size, dists]: the tree and size left behind, how the call   *)
(* ended, and the distances it computed, in order.                         *)
(***************************************************************************)
\* lines 111-116: the free child slot d of `current` takes the word
AddStore(t, sz, current, d, word) ==
    LET linked == IF t[current + 1].word.some
                  THEN [t EXCEPT ![current + 1].next[d + 1] = Some(sz)]
                  ELSE t
    IN  IF sz >= Len(linked)
        THEN [kind |-> "Panic", tree |-> linked, size |-> sz]
        ELSE [kind |-> "Ok",
              tree |-> [linked EXCEPT ![sz + 1].word = Some(word)],
              size |-> sz + 1]

RECURSIVE AddFrom(_, _, _, _, _, _)
\* an add without the arm `0 => break` of line 107
AddFromNoBreak(t, sz, al, current, word, dists) ==
    IF current >= Len(t) THEN [kind |-> "Panic", tree |-> t, size |-> sz, dists |-> dists]
    ELSE LET distance == Distance(CurrentWord(t, current), word, al)
             d == distance.val
             seen == Append(dists, distance)
         IN  IF distance.kind # "Ok"
             THEN [kind |-> distance.kind, tree |-> t, size |-> sz, dists |-> seen]
             ELSE IF d >= Len(t[current + 1].next)
                  THEN [kind |-> "Panic", tree |-> t, size |-> sz, dists |-> seen]
             ELSE IF t[current + 1].next[d + 1].some
                  THEN AddFrom(t, sz, al, t[current + 1].next[d + 1].val, word, seen)
             ELSE LET r == AddStore(t, sz, current, d, word)
                  IN  [kind |-> r.kind, tree |-> r.tree, size |-> r.size, dists |-> seen]
\* lines 99-120: the loop
AddFrom(t, sz, al, current, word, dists) ==
    IF current >= Len(t) THEN [kind |-> "Panic", tree |-> t, size |-> sz, dists |-> dists]
    ELSE LET distance == Distance(CurrentWord(t, current), word, al)
             d == distance.val
             seen == Append(dists, distance)
         IN  IF distance.kind # "Ok"
             THEN [kind |-> distance.kind, tree |-> t, size |-> sz, dists |-> seen]
             ELSE IF d = 0 THEN [kind |-> "Ok", tree |-> t, size |-> sz, dists |-> seen]
             ELSE IF d >= Len(t[current + 1].next)
                  THEN [kind |-> "Panic", tree |-> t, size |-> sz, dists |-> seen]
             ELSE IF t[current + 1].next[d + 1].some
                  THEN AddFrom(t, sz, al, t[current + 1].next[d + 1].val, word, seen)
             ELSE LET r == AddStore(t, sz, current, d, word)
                  IN  [kind |-> r.kind, tree |-> r.tree, size |-> r.size, dists |-> seen]

add(t, sz, al, word) == AddFrom(t, sz, al, 0, word, <<>>)

(***************************************************************************)
(* BKTree::does_contain, from the node `current` on.                       *)
(***************************************************************************)
RECURSIVE DoesContainFrom(_, _, _, _)
DoesContainFrom(t, al, current, word) ==
    IF current >= Len(t) THEN Panic
    ELSE LET distance == Distance(CurrentWord(t, current), word, al)
             d == distance.val
         IN  IF distance.kind # "Ok" THEN distance
             ELSE IF d = 0 THEN Ok(TRUE)
             ELSE IF d >= Len(t[current + 1].next) THEN Panic
             ELSE IF ~t[current + 1].next[d + 1].some THEN Ok(FALSE)
             ELSE DoesContainFrom(t, al, t[current + 1].next[d + 1].val, word)

does_contain(t, al, word) == DoesContainFrom(t, al, 0, word)

(***************************************************************************)
(* BKTree::get_similar_words.  checks is the build's overflow-checks       *)
(* setting: u8 addition panics on overflow with it and wraps without it.   *)
(***************************************************************************)
\* lines 169-174: the children of keys i..last are pushed, in this order
RECURSIVE PushChildren(_, _, _, _)
PushChildren(next, stack, i, last) ==
    IF i > last THEN stack
    ELSE PushChildren(next,
                      IF next[i + 1].some THEN Append(stack, next[i + 1].val) ELSE stack,
                      i + 1, last)

\* line 166
ToleranceStart(distance, tolerance) ==
    IF distance > tolerance THEN distance - tolerance ELSE 1

\* lines 153-175: the loop, with the stack and the result so far
RECURSIVE SimilarLoop(_, _, _, _, _, _, _)
SimilarLoop(t, al, checks, word, tolerance, stack, result) ==
    IF stack = <<>> THEN Ok(result)
    ELSE LET current == stack[Len(stack)]
             popped == SubSeq(stack, 1, Len(stack) - 1)
         IN  IF current >= Len(t) THEN Panic
             ELSE
             LET current_word == CurrentWord(t, current)
                 distance == Distance(word, current_word, al)
                 d == distance.val
                 found == IF d <= tolerance THEN Append(result, current_word) ELSE result
                 tolerance_start == ToleranceStart(d, tolerance)
                 tolerance_end == AsU8(d + tolerance)
                 next == t[current + 1].next
             IN  IF distance.kind # "Ok" THEN distance
                 ELSE IF checks /\ d + tolerance >= U8Range THEN Panic
                 ELSE IF tolerance_start <= tolerance_end /\ tolerance_end >= Len(next)
                      THEN Panic
                 ELSE SimilarLoop(t, al, checks, word, tolerance,
                                  PushChildren(next, popped, tolerance_start, tolerance_end),
                                  found)

get_similar_words(t, al, checks, word, tolerance) ==
    SimilarLoop(t, al, checks, word, tolerance, <<0>>, <<>>)

(***************************************************************************)
(* BloomFilter.  fp_prob is kept in percent; the f32 arithmetic of         *)
(* get_size and get_hash_count is done on integers, in ten-thousandths.    *)
(***************************************************************************)
\* ln(fp_prob), in ten-thousandths: ln 0.5 = -0.6931, ln 0.01 = -4.6052
LnScaled(fp_prob) ==
    IF fp_prob = 50 THEN 0 - LN_2.num
    ELSE IF fp_prob = 1 THEN 0 - 46052
    ELSE 0

\* f32::ceil of num / den, den > 0
CeilDiv(num, den) == IF num % den = 0 THEN num \div den ELSE (num \div den) + 1

\* BloomFilter::get_size: ceil(-(items_count * ln fp_prob) / LN_2^2), as u64
\* (a negative value converts to 0)
get_size(items_count, fp_prob) ==
    LET a == items_count * LnScaled(fp_prob)
        b == (LN_2.num * LN_2.num) \div LN_2.den
    IN  IF 0 - a <= 0 THEN 0 ELSE CeilDiv(0 - a, b)

\* BloomFilter::get_hash_count: ceil(size * LN_2 / items_count), as u32
\* (0 / 0 is NaN and converts to 0)
get_hash_count(items_count, fp_prob) ==
    LET a == get_size(items_count, fp_prob) * LN_2.num
        b == items_count * LN_2.den
    IN  IF b = 0 THEN 0 ELSE CeilDiv(a, b)

\* a filter whose bit array is one entry short
BloomFilterNewShort(items_count, fp_prob) ==
    [fp_prob |-> fp_prob,
     size |-> get_size(items_count, fp_prob),
     hash_count |-> get_hash_count(items_count, fp_prob),
     bitarray |-> [i \in 1..(get_size(items_count, fp_prob) - 1) |-> 0]]
\* BloomFilter::new
BloomFilterNew(items_count, fp_prob) ==
    [fp_prob |-> fp_prob,
     size |-> get_size(items_count, fp_prob),
     hash_count |-> get_hash_count(items_count, fp_prob),
     bitarray |-> [i \in 1..get_size(items_count, fp_prob) |-> 0]]

\* utils::hash_with_seed: a fixed function of the input and the seed
hash_with_seed(h, input, seed) == h[<<input, seed>>]

\* BloomFilter::insert, the passes i..hash_count - 1 of its loop
RECURSIVE InsertFrom(_, _, _, _)
\* an insert that sets the bit of the first hash only
InsertFirstProbeOnly(f, h, target, i) ==
    IF i >= f.hash_count \/ i >= 1 THEN Ok(f)
    ELSE IF f.size = 0 THEN Panic
    ELSE InsertFrom([f EXCEPT !.bitarray[(hash_with_seed(h, target, i) % f.size) + 1] = 1],
                    h, target, i + 1)
\* lines 52-58
InsertFrom(f, h, target, i) ==
    IF i >= f.hash_count THEN Ok(f)
    ELSE IF f.size = 0 THEN Panic
    ELSE LET digest == hash_with_seed(h, target, i) % f.size
         IN  IF digest >= Len(f.bitarray) THEN Panic
             ELSE InsertFrom([f EXCEPT !.bitarray[digest + 1] = 1], h, target, i + 1)

insert(f, h, target) == InsertFrom(f, h, target, 0)

\* BloomFilter::lookup, the passes i..hash_count - 1 of its loop
RECURSIVE LookupFrom(_, _, _, _)
LookupFrom(f, h, target, i) ==
    IF i >= f.hash_count THEN Ok(TRUE)
    ELSE IF f.size = 0 THEN Panic
    ELSE LET digest == hash_with_seed(h, target, i) % f.size
         IN  IF digest >= Len(f.bitarray) THEN Panic
             ELSE IF f.bitarray[digest + 1] = 0 THEN Ok(FALSE)
             ELSE LookupFrom(f, h, target, i + 1)

lookup(f, h, target) == LookupFrom(f, h, target, 0)

(***************************************************************************)
(* Persistence (rkyv::to_bytes, rkyv::from_bytes with check_bytes).  The   *)
(* archive is a sequence of cells that holds every field of the value: an  *)
(* Option as its tag and payload, a Vec or String as its length and        *)
(* elements.  Reading it back validates the structure: a tag is 0 or 1,    *)
(* every cell read exists, and no cell is left over.                       *)
(***************************************************************************)
RECURSIVE Concat(_)
Concat(seqs) == IF seqs = <<>> THEN <<>> ELSE Head(seqs) \o Concat(Tail(seqs))

EncodeWord(word) == IF word.some THEN <<1, Len(word.val)>> \o word.val ELSE <<0>>
EncodeRef(r) == IF r.some THEN <<1, r.val>> ELSE <<0>>
EncodeNode(node) ==
    EncodeWord(node.word) \o <<Len(node.next)>>
        \o Concat([d \in DOMAIN node.next |-> EncodeRef(node.next[d])])

\* an encoder that keeps the slots in use only
EncodeTreeUsedSlotsOnly(t) ==
    <<t.max_word_length, t.alphabet_length, t.size>>
        \o Concat([i \in 1..t.size |-> EncodeNode(t.tree[i])])
        \o <<t.size>>
\* rkyv::to_bytes of a BKTree: every slot of the node array, used or not
EncodeTree(t) ==
    <<t.max_word_length, t.alphabet_length, Len(t.tree)>>
        \o Concat([i \in DOMAIN t.tree |-> EncodeNode(t.tree[i])])
        \o <<t.size>>

\* rkyv::to_bytes of a BloomFilter
EncodeBloom(f) ==
    <<f.fp_prob, f.size, f.hash_count, Len(f.bitarray)>> \o f.bitarray

\* a parse: [ok, val, pos], pos the next cell to read
Parsed(v, pos) == [ok |-> TRUE, val |-> v, pos |-> pos]
Invalid == [ok |-> FALSE, val |-> <<>>, pos |-> 0]

DecodeCell(bytes, pos) ==
    IF pos > Len(bytes) THEN Invalid ELSE Parsed(bytes[pos], pos + 1)

DecodeWord(bytes, pos) ==
    LET tag == DecodeCell(bytes, pos)
        len == DecodeCell(bytes, pos + 1)
    IN  IF ~tag.ok THEN Invalid
        ELSE IF tag.val = 0 THEN Parsed(None, pos + 1)
        ELSE IF tag.val # 1 \/ ~len.ok THEN Invalid
        ELSE IF pos + 1 + len.val > Len(bytes) THEN Invalid
        ELSE Parsed(Some(SubSeq(bytes, pos + 2, pos + 1 + len.val)), pos + 2 + len.val)

DecodeRef(bytes, pos) ==
    LET tag == DecodeCell(bytes, pos)
        val == DecodeCell(bytes, pos + 1)
    IN  IF ~tag.ok THEN Invalid
        ELSE IF tag.val = 0 THEN Parsed(NoRef, pos + 1)
        ELSE IF tag.val # 1 \/ ~val.ok THEN Invalid
        ELSE Parsed(Some(val.val), pos + 2)

RECURSIVE DecodeRefs(_, _, _, _)
DecodeRefs(bytes, pos, count, acc) ==
    IF count = 0 THEN Parsed(acc, pos)
    ELSE LET r == DecodeRef(bytes, pos)
         IN  IF ~r.ok THEN Invalid
             ELSE DecodeRefs(bytes, r.pos, count - 1, Append(acc, r.val))

DecodeNode(bytes, pos) ==
    LET word == DecodeWord(bytes, pos)
        count == DecodeCell(bytes, word.pos)
        next == DecodeRefs(bytes, count.pos, count.val, <<>>)
    IN  IF ~word.ok THEN Invalid
        ELSE IF ~count.ok THEN Invalid
        ELSE IF ~next.ok THEN Invalid
        ELSE Parsed([word |-> word.val, next |-> next.val], next.pos)

RECURSIVE DecodeNodes(_, _, _, _)
DecodeNodes(bytes, pos, count, acc) ==
    IF count = 0 THEN Parsed(acc, pos)
    ELSE LET n == DecodeNode(bytes, pos)
         IN  IF ~n.ok THEN Invalid
             ELSE DecodeNodes(bytes, n.pos, count - 1, Append(acc, n.val))

\* rkyv::from_bytes::<BKTree>
DecodeTree(bytes) ==
    LET count == DecodeCell(bytes, 3)
        nodes == DecodeNodes(bytes, 4, count.val, <<>>)
        sz == DecodeCell(bytes, nodes.pos)
    IN  IF ~count.ok THEN Err
        ELSE IF ~nodes.ok THEN Err
        ELSE IF ~sz.ok \/ sz.pos # Len(bytes) + 1 THEN Err
        ELSE Ok([max_word_length |-> bytes[1], alphabet_length |-> bytes[2],
                 tree |-> nodes.val, size |-> sz.val])

\* rkyv::from_bytes::<BloomFilter>
DecodeBloom(bytes) ==
    LET count == DecodeCell(bytes, 4)
    IN  IF ~count.ok THEN Err
        ELSE IF Len(bytes) # 4 + count.val THEN Err
        ELSE Ok([fp_prob |-> bytes[1], size |-> bytes[2], hash_count |-> bytes[3],
                 bitarray |-> SubSeq(bytes, 5, Len(bytes))])

\* BKTree::to_file: the file after the call
TreeToFile(t) ==
    [exists |-> TRUE, bytes |-> EncodeTree(t), wrote |-> t, intact |-> TRUE]

\* impl From<File> for BKTree, lines 203-211: both failures are expect()ed
TreeFromFile(file) ==
    LET r == DecodeTree(file.bytes)
    IN  IF r.kind = "Ok" THEN r ELSE Panic

\* BloomFilter::to_file: the file after the call
BloomToFile(f) ==
    [exists |-> TRUE, bytes |-> EncodeBloom(f), wrote |-> f, intact |-> TRUE]

\* BloomFilter::from_file, lines 91-99: both failures are returned by `?`
BloomFromFile(file) ==
    IF ~file.exists THEN Err ELSE DecodeBloom(file.bytes)

(***************************************************************************)
(* The BK-tree as a state machine: BKTree::new, then add, does_contain and *)
(* get_similar_words in any order.  A panic ends the process.              *)
(***************************************************************************)
\* Dictionary::from_file, lines 29 and 33-37: max_word_length is the longest len()
RECURSIVE MaxByteLen(_)
MaxByteLen(ws) ==
    IF ws = {} THEN 0
    ELSE LET w == CHOOSE x \in ws : TRUE
         IN  Max(ByteLen(w), MaxByteLen(ws \ {w}))

\* the tokens of the input text: the words, and strings that are no word
Tokens(ws) ==
    IF LongWord \in ws THEN ws
    ELSE ws \cup {w \in WordPool : Len(w) <= MaxLen + 2}
Tolerances == 0..MaxTol

\* RefDistance over the pairs of strings of ws
ReferenceTable(ws) == [p \in ws \X ws |-> RefDistance(p[1], p[2])] @@ <<>>

\* get_damerau_levenshtein_distance over the pairs of strings of ws
DistanceTable(ws, al) ==
    [p \in ws \X ws |-> get_damerau_levenshtein_distance(p[1], p[2], al)] @@ <<>>

Alive == ret.res.kind # "Panic"

\* no file was written
NoFile == [exists |-> FALSE, bytes |-> <<>>, wrote |-> <<>>, intact |-> FALSE]
NoFiles ==
    /\ bk_file = NoFile
    /\ bf_file = NoFile

\* no Bloom filter is in use
NoBloom ==
    /\ bloom = BloomFilterNew(0, 50)
    /\ hasher = <<>>
    /\ inserted = {}

\* BKTree::new(max_word_length, alphabet_length, max_words) for the vocabulary ws
InitFor(ws, builds) ==
    /\ words = ws
    /\ overflow_checks \in builds
    /\ max_word_length = MaxByteLen(ws)
    /\ alphabet_length = AlphabetLength
    /\ tree = BKTreeNew(max_word_length, MaxWords).tree
    /\ size = 0
    /\ added = {}
    /\ ret = [op |-> "new", word |-> <<>>, other |-> <<>>, tol |-> 0, res |-> Ok(0)]
    /\ distances = DistanceTable(Tokens(ws), AlphabetLength)
    /\ reference = IF LongWord \in ws THEN <<>> ELSE ReferenceTable(Tokens(ws))

Init == InitFor(ShortWords, {TRUE}) /\ NoBloom /\ NoFiles

Add(word) ==
    /\ Alive
    /\ LET r == add(tree, size, alphabet_length, word)
       IN  /\ tree' = r.tree
           /\ size' = r.size
           /\ ret' = [op |-> "add", word |-> word, other |-> <<>>, tol |-> 0,
                      res |-> [kind |-> r.kind, val |-> r.dists]]
    /\ added' = added \cup {word}
    /\ UNCHANGED <<max_word_length, alphabet_length, overflow_checks, words, tables, bf, files>>

DoesContain(word) ==
    /\ Alive
    /\ ret' = [op |-> "does_contain", word |-> word, other |-> <<>>, tol |-> 0,
               res |-> does_contain(tree, alphabet_length, word)]
    /\ UNCHANGED <<bk, words, added, tables, bf, files>>

GetSimilarWords(word, tolerance) ==
    /\ Alive
    /\ ret' = [op |-> "get_similar_words", word |-> word, other |-> <<>>, tol |-> tolerance,
               res |-> get_similar_words(tree, alphabet_length, overflow_checks,
                                         word, tolerance)]
    /\ UNCHANGED <<bk, words, added, tables, bf, files>>

Next ==
    \/ \E word \in words : Add(word)
    \/ \E word \in Tokens(words) : DoesContain(word)
    \/ \E word \in Tokens(words), tolerance \in Tolerances :
          GetSimilarWords(word, tolerance)

vars == <<max_word_length, alphabet_length, overflow_checks, tree, size, words, added,
          ret, distances, reference, bloom, hasher, inserted, bk_file, bf_file>>

Spec == Init /\ [][Next]_vars

\* the build alone: the words of the vocabulary are added, in any order and
\* any number of times
NextAdd == \E word \in words : Add(word)
SpecAdd == Init /\ [][NextAdd]_vars

\* the same tree, built for a vocabulary whose longest word has U8Range chars
InitSizing == InitFor(LongWords, BOOLEAN) /\ NoBloom /\ NoFiles
SpecSizing == InitSizing /\ [][Next]_vars

(***************************************************************************)
(* The distance function alone: a pair of strings is drawn, then the       *)
(* function is applied to it.                                              *)
(***************************************************************************)
\* the strings of at most MaxStr chars over a, b, c
ShortStrings == UNION {[1..n -> {97, 98, 99}] : n \in 0..MaxStr}
\* strings of one char outside ASCII: e-acute (2 bytes in UTF-8, below
\* alphabet_length) and a-macron (2 bytes, above alphabet_length)
WideStrings == {<<233>>, <<257>>}
\* the pairs the function is applied to: of short strings, of LongWord
\* with itself, "" and "a", and of the wide strings with "" and "a"
DistancePairs ==
    (ShortStrings \X ShortStrings)
        \cup ({LongWord} \X {<<>>, <<97>>, LongWord})
        \cup ({<<>>, <<97>>} \X {LongWord})
        \cup (WideStrings \X {<<>>, <<97>>})
        \cup ({<<>>, <<97>>} \X WideStrings)

InitDistance ==
    /\ words = {}
    /\ overflow_checks = TRUE
    /\ max_word_length = 0
    /\ alphabet_length = AlphabetLength
    /\ tree = <<>>
    /\ size = 0
    /\ added = {}
    /\ distances = <<>>
    /\ reference = <<>>
    /\ NoBloom
    /\ NoFiles
    /\ \E p \in DistancePairs :
          ret = [op |-> "args", word |-> p[1], other |-> p[2], tol |-> 0, res |-> Ok(0)]

GetDistance ==
    /\ ret.op = "args"
    /\ ret' = [ret EXCEPT !.op = "distance",
                          !.res = get_damerau_levenshtein_distance(ret.word, ret.other,
                                                                   alphabet_length)]
    /\ UNCHANGED <<bk, words, added, tables, bf, files>>

NextDistance == GetDistance

SpecDistance == InitDistance /\ [][NextDistance]_vars

(***************************************************************************)
(* Properties of the BK-tree (Spec, SpecSizing).                           *)
(***************************************************************************)
\* a word was stored: some add went through lines 111-116
Built == size > 0

\* C1: whenever get_similar_words returns on a tree into which at least one
\* word was added, the returned list holds exactly the added words whose
\* Damerau-Levenshtein distance to the query is at most the tolerance, each
\* of them once.
SimilarWordsExact ==
    (ret.op = "get_similar_words" /\ ret.res.kind = "Ok" /\ added # {}) =>
        /\ Range(ret.res.val) = {w \in added : reference[<<w, ret.word>>] <= ret.tol}
        /\ Len(ret.res.val) = Cardinality(Range(ret.res.val))

\* C1 holds of the vocabularies without the word "": supporting fact
SimilarWordsExactNonEmpty ==
    (ret.op = "get_similar_words" /\ ret.res.kind = "Ok" /\ added # {}
        /\ <<>> \notin added) =>
        /\ Range(ret.res.val) = {w \in added : reference[<<w, ret.word>>] <= ret.tol}
        /\ Len(ret.res.val) = Cardinality(Range(ret.res.val))

\* C2: every word passed to add is found by does_contain, and by
\* get_similar_words with tolerance 0, whatever was added before or after it.
AddedWordsContained ==
    /\ (ret.op = "does_contain" /\ ret.word \in added) =>
           (ret.res.kind = "Ok" /\ ret.res.val = TRUE)
    /\ (ret.op = "get_similar_words" /\ ret.tol = 0 /\ ret.word \in added) =>
           (ret.res.kind = "Ok" /\ ret.word \in Range(ret.res.val))

\* C2 holds of every word but "": supporting fact
AddedNonEmptyWordsContained ==
    /\ (ret.op = "does_contain" /\ ret.word \in added /\ ret.word # <<>>) =>
           (ret.res.kind = "Ok" /\ ret.res.val = TRUE)
    /\ (ret.op = "get_similar_words" /\ ret.tol = 0 /\ ret.word \in added
           /\ ret.word # <<>>) =>
           (ret.res.kind = "Ok" /\ ret.word \in Range(ret.res.val))

\* C4: does_contain answers false for every string that was never passed to
\* add, in every state of the tree, the freshly constructed one included.
NeverAddedNotContained ==
    (ret.op = "does_contain" /\ ret.res.kind = "Ok" /\ ret.word \notin added) =>
        ret.res.val = FALSE

\* C4 holds once the root holds a word: supporting fact
NeverAddedNotContainedBuilt ==
    (ret.op = "does_contain" /\ ret.res.kind = "Ok" /\ ret.word \notin added /\ Built) =>
        ret.res.val = FALSE

\* C9: on a built tree does_contain and get_similar_words (tolerance >= 1)
\* return a value for every token: no child index read is outside the child
\* array and distance + tolerance does not overflow.
QueriesReturn ==
    (Built /\ (ret.op = "does_contain"
                  \/ (ret.op = "get_similar_words" /\ ret.tol >= 1))) =>
        ret.res.kind = "Ok"

\* C10: every distance computed during add, for words no longer than
\* max_word_length, is returned by the distance type without truncation and
\* is an index of the child array (max_word_length + 1 entries).
AddDistancesFit ==
    ret.op = "add" =>
        \A i \in DOMAIN ret.res.val :
            /\ ret.res.val[i].kind = "Ok"
            /\ ret.res.val[i].val = ret.res.val[i].usize
            /\ ret.res.val[i].usize <= max_word_length

\* a slot in use holds the word w
Stored(w) == \E i \in 1..size : tree[i].word.some /\ tree[i].word.val = w

\* two Options are equal
SameOption(x, y) == x.some = y.some /\ (x.some => x.val = y.val)

\* two node arrays are equal: every slot's word and every child reference
SameTree(t1, t2) ==
    /\ Len(t1) = Len(t2)
    /\ \A i \in DOMAIN t1 :
          /\ SameOption(t1[i].word, t2[i].word)
          /\ Len(t1[i].next) = Len(t2[i].next)
          /\ \A d \in DOMAIN t1[i].next : SameOption(t1[i].next[d], t2[i].next[d])

\* C11: add is idempotent: an add of a word that a slot in use already holds
\* leaves the node array and size unchanged, and so does an add(w) that
\* directly follows an add(w), at any point of any insertion sequence.
AddIdempotent ==
    [][/\ (ret'.op = "add" /\ ret'.res.kind = "Ok" /\ Stored(ret'.word)) =>
              (SameTree(tree', tree) /\ size' = size)
       /\ (ret.op = "add" /\ ret.res.kind = "Ok" /\ ret'.op = "add"
              /\ ret'.res.kind = "Ok" /\ ret'.word = ret.word) =>
              (SameTree(tree', tree) /\ size' = size)]_vars

\* C11 witness: an add descended to a child and found its word there, at
\* distance 0
AddIdempotentWitness ==
    /\ ret.op = "add" /\ ret.res.kind = "Ok" /\ Stored(ret.word)
    /\ size >= 2
    /\ Len(ret.res.val) >= 2
    /\ ret.res.val[Len(ret.res.val)].val = 0

\* every child reference of the node array t, of sz slots in use, hangs
\* under the distance between its two words: key k >= 1 of an occupied
\* slot p points to an occupied slot whose word is at distance k from p's
ChildKeysExact(t, sz) ==
    \A p \in DOMAIN t : \A k \in 0..(Len(t[p].next) - 1) :
        t[p].next[k + 1].some =>
            /\ k >= 1
            /\ p <= sz /\ t[p].word.some
            /\ t[p].next[k + 1].val < sz
            /\ t[t[p].next[k + 1].val + 1].word.some
            /\ reference[<<t[p].word.val, t[t[p].next[k + 1].val + 1].word.val>>] = k

\* the node array t has no child reference
NoEdge(t) == \A p \in DOMAIN t : \A k \in DOMAIN t[p].next : ~t[p].next[k].some

\* the step is the first add, of a fresh tree, and it returned
FirstAdd == added = {} /\ ret'.op = "add" /\ ret'.res.kind = "Ok"

\* every child reference of the node array t is the same in the array u
RefsKept(t, u) ==
    \A p \in DOMAIN t : \A k \in DOMAIN t[p].next :
        t[p].next[k].some => SameOption(u[p].next[k], t[p].next[k])

\* C15: in every tree reachable by adds each child reference under key k of
\* a node points to a slot in use whose word is at distance exactly k >= 1
\* from the node's word; the first insertion writes its word into slot 0 and
\* creates no edge; a child reference, once set, is never changed or removed.
ChildKeys ==
    /\ [](Alive => ChildKeysExact(tree, size))
    /\ [][/\ FirstAdd =>
               (size' = 1 /\ SameOption(tree'[1].word, Some(ret'.word)) /\ NoEdge(tree'))
          /\ RefsKept(tree, tree')]_vars

\* C15 holds when the first word added is not "": supporting fact
ChildKeysFirstNonEmpty ==
    /\ [](Alive => ChildKeysExact(tree, size))
    /\ [][/\ (FirstAdd /\ ret'.word # <<>>) =>
               (size' = 1 /\ SameOption(tree'[1].word, Some(ret'.word)) /\ NoEdge(tree'))
          /\ RefsKept(tree, tree')]_vars

(***************************************************************************)
(* Properties of the distance function (SpecDistance).                     *)
(***************************************************************************)
\* C5: the distance returned for a and b is the reference Damerau-Levenshtein
\* distance of a and b (unrestricted: edits may follow a transposition).
DistanceIsReference ==
    ret.op = "distance" =>
        (ret.res.kind = "Ok" /\ ret.res.val = RefDistance(ret.word, ret.other))

\* C5 holds of the strings of at most MaxStr chars: supporting fact
DistanceIsReferenceShort ==
    (ret.op = "distance" /\ ret.word \in ShortStrings /\ ret.other \in ShortStrings) =>
        (ret.res.kind = "Ok" /\ ret.res.val = RefDistance(ret.word, ret.other))

\* C6: distance(a, b) = distance(b, a), distance(a, a) = 0, and
\* distance(a, b) = 0 exactly when a = b.
DistanceSymmetricSeparating ==
    ret.op = "distance" =>
        /\ ret.res = get_damerau_levenshtein_distance(ret.other, ret.word, alphabet_length)
        /\ (ret.res.val = 0) = (ret.word = ret.other)

\* C6 holds of the strings of at most MaxStr chars: supporting fact
DistanceSymmetricSeparatingShort ==
    (ret.op = "distance" /\ ret.word \in ShortStrings /\ ret.other \in ShortStrings) =>
        /\ ret.res = get_damerau_levenshtein_distance(ret.other, ret.word, alphabet_length)
        /\ (ret.res.val = 0) = (ret.word = ret.other)

\* C12: the distance function is total: it returns a distance, never an
\* error and never a panic, for every pair of strings, whatever their
\* characters and lengths, the empty string included.
DistanceTotal ==
    ret.op = "distance" => ret.res.kind = "Ok"

\* C12 holds of the ASCII strings, of any length: supporting fact
DistanceTotalAscii ==
    (ret.op = "distance" /\ ret.word \notin WideStrings /\ ret.other \notin WideStrings) =>
        ret.res.kind = "Ok"

(***************************************************************************)
(* The Bloom filter as a state machine: BloomFilter::new, then insert and  *)
(* lookup in any order.                                                    *)
(***************************************************************************)
\* the items: a, b, ab
Items == {<<97>>, <<98>>, <<97, 98>>}
\* the hash functions: one digest for each item and seed
Hashers(hash_count) == [Items \X (0..(hash_count - 1)) -> 0..MaxDigest]

NoTree ==
    /\ words = {}
    /\ overflow_checks = TRUE
    /\ max_word_length = 0
    /\ alphabet_length = AlphabetLength
    /\ tree = <<>>
    /\ size = 0
    /\ added = {}
    /\ distances = <<>>
    /\ reference = <<>>

InitBloom ==
    /\ NoTree
    /\ NoFiles
    /\ \E items_count \in 0..MaxItems : bloom = BloomFilterNew(items_count, 50)
    /\ hasher \in Hashers(bloom.hash_count)
    /\ inserted = {}
    /\ ret = [op |-> "new", word |-> <<>>, other |-> <<>>, tol |-> 0, res |-> Ok(0)]

Insert(target) ==
    /\ Alive
    /\ LET r == insert(bloom, hasher, target)
       IN  /\ bloom' = IF r.kind = "Ok" THEN r.val ELSE bloom
           /\ ret' = [op |-> "insert", word |-> target, other |-> <<>>, tol |-> 0,
                      res |-> [kind |-> r.kind, val |-> 0]]
    /\ inserted' = inserted \cup {target}
    /\ UNCHANGED <<bk, words, added, tables, hasher, files>>

Lookup(target) ==
    /\ Alive
    /\ ret' = [op |-> "lookup", word |-> target, other |-> <<>>, tol |-> 0,
               res |-> lookup(bloom, hasher, target)]
    /\ UNCHANGED <<bk, words, added, tables, bf, files>>

NextBloom ==
    \/ \E target \in Items : Insert(target)
    \/ \E target \in Items : Lookup(target)

SpecBloom == InitBloom /\ [][NextBloom]_vars

\* C3: after any inserts, more than the expected item count included, lookup
\* answers true for every item that was inserted.
NoFalseNegatives ==
    (ret.op = "lookup" /\ ret.word \in inserted) =>
        (ret.res.kind = "Ok" /\ ret.res.val = TRUE)

\* C3 witness: a lookup of an inserted item on a filter made for one item,
\* after every item was inserted
NoFalseNegativesWitness ==
    /\ ret.op = "lookup" /\ ret.word \in inserted
    /\ bloom.hash_count >= 1
    /\ bloom.size = get_size(1, 50)
    /\ Cardinality(inserted) = Cardinality(Items)

\* q is the ceiling of num / den, den > 0
IsCeil(q, num, den) == q * den >= num /\ (q - 1) * den < num

\* the false-positive probabilities the program and its tests use, in percent
FpProbs == {1, 50}

\* f is the filter the sizing formulas give for n items at probability p
NewAsSpecified(f, n, p) ==
    /\ f.fp_prob = p
    /\ IsCeil(f.size, 0 - (n * LnScaled(p)), (LN_2.num * LN_2.num) \div LN_2.den)
    /\ n > 0 => IsCeil(f.hash_count, f.size * LN_2.num, n * LN_2.den)
    /\ Len(f.bitarray) = f.size
    /\ \A i \in 1..f.size : f.bitarray[i] = 0

\* C13: new(n, p) returns size = ceil(-(n ln p) / (ln 2)^2), hash_count =
\* ceil((size / n) ln 2) and a bit array of exactly size zeros; on a fresh
\* filter with hash_count >= 1 lookup answers false for every item; every
\* probe index of insert and lookup is inside the bit array.
NewSizedAndZeroed ==
    /\ \A n \in 0..MaxItems : \A p \in FpProbs : NewAsSpecified(BloomFilterNew(n, p), n, p)
    /\ Len(bloom.bitarray) = bloom.size
    /\ inserted = {} => \A i \in 1..bloom.size : bloom.bitarray[i] = 0
    /\ (ret.op = "lookup" /\ inserted = {} /\ bloom.hash_count >= 1) =>
           (ret.res.kind = "Ok" /\ ret.res.val = FALSE)
    /\ ret.op \in {"insert", "lookup"} => ret.res.kind = "Ok"

\* C13 witness: a lookup on a fresh filter that probes its bit array
NewSizedAndZeroedWitness ==
    /\ ret.op = "lookup" /\ inserted = {}
    /\ bloom.hash_count >= 1 /\ bloom.size >= 2
    /\ ret.res.kind = "Ok" /\ ret.res.val = FALSE

(***************************************************************************)
(* The two files: a tree or a filter is built, written by to_file, read    *)
(* back by From<File> / from_file; meanwhile the file may be cut short or  *)
(* get bytes appended by anything else that writes to the path.            *)
(***************************************************************************)
\* the vocabulary of the persisted tree: a, ab, ba
FileWords == {w \in {<<97>>, <<97, 98>>, <<98, 97>>} : Len(w) <= MaxLen}

\* the hash functions of the persisted filter: the digest of an item is the
\* same under every seed
FileHashers(hash_count) ==
    {h \in Hashers(hash_count) :
        \A x \in Items : \A seed \in 0..(hash_count - 1) : h[<<x, seed>>] = h[<<x, 0>>]}

BkTree ==
    [max_word_length |-> max_word_length, alphabet_length |-> alphabet_length,
     tree |-> tree, size |-> size]

\* a tree is built and persisted, or a filter is
InitFiles ==
    /\ NoFiles
    /\ \/ InitFor(FileWords, {TRUE}) /\ NoBloom
       \/ /\ NoTree
          /\ \E items_count \in 1..MaxItems : bloom = BloomFilterNew(items_count, 50)
          /\ hasher \in FileHashers(bloom.hash_count)
          /\ inserted = {}
          /\ ret = [op |-> "new", word |-> <<>>, other |-> <<>>, tol |-> 0, res |-> Ok(0)]

BkToFile ==
    /\ Alive
    /\ bk_file' = TreeToFile(BkTree)
    /\ ret' = [op |-> "bk_to_file", word |-> <<>>, other |-> <<>>, tol |-> 0, res |-> Ok(0)]
    /\ UNCHANGED <<bk, words, added, tables, bf, bf_file>>

\* BKTree::from(File::open(path).expect(..)): called on an existing file
BkFromFile ==
    /\ Alive
    /\ bk_file.exists
    /\ ret' = [op |-> "bk_from_file", word |-> <<>>, other |-> <<>>, tol |-> 0,
               res |-> TreeFromFile(bk_file)]
    /\ UNCHANGED <<bk, words, added, tables, bf, files>>

BfToFile ==
    /\ Alive
    /\ bf_file' = BloomToFile(bloom)
    /\ ret' = [op |-> "bf_to_file", word |-> <<>>, other |-> <<>>, tol |-> 0, res |-> Ok(0)]
    /\ UNCHANGED <<bk, words, added, tables, bf, bk_file>>

BfFromFile ==
    /\ Alive
    /\ ret' = [op |-> "bf_from_file", word |-> <<>>, other |-> <<>>, tol |-> 0,
               res |-> BloomFromFile(bf_file)]
    /\ UNCHANGED <<bk, words, added, tables, bf, files>>

\* the lengths a file is cut to: nothing, half, all but the last cell
Cuts(file) == {0, Len(file.bytes) \div 2, Len(file.bytes) - 1}
Cut(file, n) == [file EXCEPT !.bytes = SubSeq(file.bytes, 1, n), !.intact = FALSE]
Grown(file) == [file EXCEPT !.bytes = Append(file.bytes, 0), !.intact = FALSE]

\* the last thing that happened was no call of the program
Corrupted == [op |-> "corrupt", word |-> <<>>, other |-> <<>>, tol |-> 0, res |-> Ok(0)]

TruncateBk ==
    /\ Alive /\ bk_file.exists /\ bk_file.intact
    /\ \E n \in Cuts(bk_file) : bk_file' = Cut(bk_file, n)
    /\ ret' = Corrupted
    /\ UNCHANGED <<bk, words, added, tables, bf, bf_file>>

TruncateBf ==
    /\ Alive /\ bf_file.exists /\ bf_file.intact
    /\ \E n \in Cuts(bf_file) : bf_file' = Cut(bf_file, n)
    /\ ret' = Corrupted
    /\ UNCHANGED <<bk, words, added, tables, bf, bk_file>>

AppendBk ==
    /\ Alive /\ bk_file.exists /\ bk_file.intact
    /\ bk_file' = Grown(bk_file)
    /\ ret' = Corrupted
    /\ UNCHANGED <<bk, words, added, tables, bf, bf_file>>

AppendBf ==
    /\ Alive /\ bf_file.exists /\ bf_file.intact
    /\ bf_file' = Grown(bf_file)
    /\ ret' = Corrupted
    /\ UNCHANGED <<bk, words, added, tables, bf, bk_file>>

NextFiles ==
    \/ \E word \in words : Add(word)
    \/ \E target \in Items : hasher # <<>> /\ Insert(target)
    \/ words # {} /\ BkToFile
    \/ words # {} /\ BkFromFile
    \/ hasher # <<>> /\ BfToFile
    \/ hasher # <<>> /\ BfFromFile
    \/ TruncateBk
    \/ TruncateBf
    \/ AppendBk
    \/ AppendBf

SpecFiles == InitFiles /\ [][NextFiles]_vars

\* C7: reading back the file to_file wrote gives a value equal to the one
\* written, field for field: for a tree that holds a word, the unused slots
\* of its node array included, and for any filter.
RoundTrip ==
    /\ (ret.op = "bk_from_file" /\ bk_file.intact /\ bk_file.wrote.size > 0) =>
           (ret.res.kind = "Ok" /\ ret.res.val = bk_file.wrote)
    /\ (ret.op = "bf_from_file" /\ bf_file.exists /\ bf_file.intact) =>
           (ret.res.kind = "Ok" /\ ret.res.val = bf_file.wrote)

\* C7 witness: a tree of two words with an unused slot was written and read back
RoundTripWitness ==
    /\ ret.op = "bk_from_file" /\ bk_file.intact /\ ret.res.kind = "Ok"
    /\ bk_file.wrote.size = 2
    /\ bk_file.wrote.size < Len(bk_file.wrote.tree)

\* C8: reading a missing, truncated or structurally invalid file ends in an
\* error returned to the caller, for the tree and for the filter: never in
\* a panic, never in a value.
DecodeFailureIsError ==
    /\ (ret.op = "bk_from_file" /\ ~bk_file.intact) => ret.res.kind = "Err"
    /\ (ret.op = "bf_from_file" /\ ~bf_file.intact) => ret.res.kind = "Err"

\* C8 holds of the filter: supporting fact
BloomDecodeFailureIsError ==
    (ret.op = "bf_from_file" /\ ~bf_file.intact) => ret.res.kind = "Err"

(***************************************************************************)
(* Characters: char::is_alphanumeric, is_lowercase, is_uppercase,          *)
(* to_lowercase and to_uppercase, on ASCII and on e-acute (233, 201).      *)
(***************************************************************************)
is_uppercase(c) == (c >= 65 /\ c <= 90) \/ c = 201
is_lowercase(c) == (c >= 97 /\ c <= 122) \/ c = 233
is_alphanumeric(c) == is_uppercase(c) \/ is_lowercase(c) \/ (c >= 48 /\ c <= 57)
\* char::to_lowercase().next().unwrap()
CharToLower(c) == IF is_uppercase(c) THEN c + 32 ELSE c
\* char::to_uppercase().next().unwrap()
CharToUpper(c) == IF is_lowercase(c) THEN c - 32 ELSE c
\* str::to_lowercase
to_lowercase(s) == [i \in 1..Len(s) |-> CharToLower(s[i])]

(***************************************************************************)
(* SpellCheck: both indexes are built from one dictionary, then run takes  *)
(* the tokens of the input one by one.                                     *)
(***************************************************************************)
\* impl From<&Dictionary> for BKTree, lines 194-196: the adds, from word i on;
\* a failed add is expect()ed into a panic
RECURSIVE BuildTreeFrom(_, _, _, _, _)
\* line 195: r is what add returned for word i
BuildTreeStep(r, al, dict, i) ==
    IF r.kind # "Ok" THEN [kind |-> "Panic", tree |-> r.tree, size |-> r.size]
    ELSE BuildTreeFrom(r.tree, r.size, al, dict, i + 1)
BuildTreeFrom(t, sz, al, dict, i) ==
    IF i > Len(dict) THEN [kind |-> "Ok", tree |-> t, size |-> sz]
    ELSE BuildTreeStep(add(t, sz, al, dict[i]), al, dict, i)

\* impl From<&Dictionary> for BKTree
BKTreeFromDictionary(dict, mwl, al) ==
    BuildTreeFrom(BKTreeNew(mwl, Len(dict)).tree, 0, al, dict, 1)

\* impl From<&Dictionary> for BloomFilter, lines 115-117: the inserts
RECURSIVE BuildBloomFrom(_, _, _, _)
\* line 116: r is what insert returned for word i
BuildBloomStep(r, h, dict, i) ==
    IF r.kind # "Ok" THEN r ELSE BuildBloomFrom(r.val, h, dict, i + 1)
BuildBloomFrom(f, h, dict, i) ==
    IF i > Len(dict) THEN Ok(f)
    ELSE BuildBloomStep(insert(f, h, dict[i]), h, dict, i)

\* impl From<&Dictionary> for BloomFilter
BloomFromDictionary(dict, h) == BuildBloomFrom(BloomFilterNew(Len(dict), 1), h, dict, 1)

\* the words a dictionary file may hold: "", a, abca
RunPool == {<<>>, <<97>>, <<97, 98, 99, 97>>}
\* the dictionaries: the sequences of different words of RunPool
Dictionaries ==
    {d \in UNION {[1..n -> RunPool] : n \in 1..Cardinality(RunPool)} :
        \A i, j \in DOMAIN d : i # j => d[i] # d[j]}
\* the cores of the tokens of the input: a, A, ab, abc, and "" (of "!!!")
RunTokens == {<<97>>, <<65>>, <<97, 98>>, <<97, 98, 99>>, <<>>}
\* the strings the indexes are asked about
RunLower == {to_lowercase(t) : t \in RunTokens} \cup RunPool
\* the hash functions: each string has one digest, whatever the seed
RunHashers(hash_count) ==
    {[p \in RunLower \X (0..(hash_count - 1)) |-> g[p[1]]] : g \in [RunLower -> 0..MaxDigest]}

InitRun ==
    /\ NoFiles
    /\ overflow_checks = TRUE
    /\ alphabet_length = AlphabetLength
    /\ distances = DistanceTable(RunLower, AlphabetLength)
    /\ reference = <<>>
    /\ \E dict \in Dictionaries :
          /\ words = Range(dict)
          /\ added = Range(dict)
          /\ inserted = Range(dict)
          /\ max_word_length = MaxByteLen(Range(dict))
          /\ \E built \in {BKTreeFromDictionary(dict, MaxByteLen(Range(dict)), AlphabetLength)} :
                 /\ built.kind = "Ok"
                 /\ tree = built.tree
                 /\ size = built.size
          /\ hasher \in RunHashers(BloomFilterNew(Len(dict), 1).hash_count)
          /\ \E filter \in {BloomFromDictionary(dict, hasher)} :
                 /\ filter.kind = "Ok"
                 /\ bloom = filter.val
    /\ ret = [op |-> "new", word |-> <<>>, other |-> <<>>, tol |-> 0, res |-> Ok(<<>>)]

\* a panic of run: no list of suggestions is left
Crashed == [kind |-> "Panic", val |-> <<>>]
\* Result::unwrap: an error is a panic
Unwrap(r) == IF r.kind = "Ok" THEN r ELSE Crashed

\* insert_suggestion, line 85: the search at tolerance tol_value
Suggestions(word, lower_word, tol_value) ==
    [op |-> "insert_suggestion", word |-> word, other |-> lower_word, tol |-> tol_value,
     res |-> Unwrap(get_similar_words(tree, alphabet_length, overflow_checks,
                                      lower_word, tol_value))]

\* insert_suggestion is in its loop: the last search found nothing
InLoop == ret.op = "insert_suggestion" /\ ret.res.kind = "Ok" /\ ret.res.val = <<>>

\* run, lines 106-126: where the token goes, given what the filter (found)
\* and the tree (contained) answer
Routed(word, lower_word, found, contained) ==
    LET accepted == [op |-> "run", word |-> word, other |-> lower_word, tol |-> 0,
                     res |-> Ok(<<>>)]
        failed == [op |-> "run", word |-> word, other |-> lower_word, tol |-> 0,
                   res |-> Crashed]
    IN  IF found.kind # "Ok" THEN failed
        ELSE IF ~found.val THEN Suggestions(word, lower_word, 1)
        ELSE IF contained.kind # "Ok" THEN failed
        ELSE IF contained.val THEN accepted
        ELSE Suggestions(word, lower_word, 1)
\* run, lines 105-126, for one token: accepted, or handed to insert_suggestion
RunToken(word) ==
    Routed(word, to_lowercase(word), lookup(bloom, hasher, to_lowercase(word)),
           does_contain(tree, alphabet_length, to_lowercase(word)))

Run(word) ==
    /\ Alive /\ ~InLoop
    /\ ret' = RunToken(word)
    /\ UNCHANGED <<bk, words, added, tables, bf, files>>

\* insert_suggestion, lines 86-89: nothing found, tol_value += 1, search again
SuggestStep ==
    /\ Alive /\ InLoop
    /\ ret' = IF ret.tol + 1 >= U8Range /\ overflow_checks
              THEN [ret EXCEPT !.res = Crashed]
              ELSE Suggestions(ret.word, ret.other, AsU8(ret.tol + 1))
    /\ UNCHANGED <<bk, words, added, tables, bf, files>>

NextRun ==
    \/ \E word \in RunTokens : Run(word)
    \/ SuggestStep

\* the loop of insert_suggestion goes on while it can
SpecRun == InitRun /\ [][NextRun]_vars /\ WF_vars(SuggestStep)

\* the search of insert_suggestion is under way, or has ended
InSearch == ret.op = "insert_suggestion"
\* the search has ended with candidates
Found == ret.op = "insert_suggestion" /\ ret.res.kind = "Ok" /\ ret.res.val # <<>>

\* C14: the suggestion search, run with tolerance 1, 2, 3, ... for a token
\* that was not accepted, eventually stops with a non-empty candidate list
\* without failing, for every token and every index that holds a word.
SearchFindsCandidates == (InSearch /\ Built) ~> Found

\* C14, the termination alone: the search stops, with candidates or with a
\* panic: supporting fact
SearchStops == (InSearch /\ Built) ~> (Found \/ ~Alive)

\* C16: with both indexes built from the vocabulary V, run accepts a token
\* exactly when its lowercase form is a word of V: a word of V is never
\* handed to the suggestion search, a token not in V always is.
AcceptsExactlyVocabulary ==
    /\ (ret.op = "run" /\ ret.res.kind = "Ok") => ret.other \in words
    /\ ret.op = "insert_suggestion" => ret.other \notin words
    /\ ret.op = "run" => ret.res.kind = "Ok"

\* C16 holds of the tokens no longer than the longest word, for
\* vocabularies without the word "": supporting fact
AcceptsExactlyVocabularyShort ==
    (<<>> \notin words /\ Len(ret.other) <= max_word_length) =>
        /\ (ret.op = "run" /\ ret.res.kind = "Ok") => ret.other \in words
        /\ ret.op = "insert_suggestion" => ret.other \notin words
        /\ ret.op = "run" => ret.res.kind = "Ok"


(***************************************************************************)
(* The processor: split_input cuts a text into tokens and each token into  *)
(* (starting punctuation, middle word, ending punctuation); join_input     *)
(* puts the parts back together.                                           *)
(***************************************************************************)
\* longest text given to the processor, in chars
MaxText == 4
\* the chars of the texts: a, e-acute (two bytes), '!', '?' and the space
SplitChars == {97, 233, 33, 63, 32}

\* char::is_whitespace
is_whitespace(c) == c \in {9, 10, 11, 12, 13, 32}

\* str::split_whitespace: the maximal runs of chars that are not whitespace
RECURSIVE GetWordsFrom(_, _, _, _)
GetWordsFrom(string, i, current, out) ==
    IF i > Len(string)
    THEN IF current = <<>> THEN out ELSE Append(out, current)
    ELSE IF is_whitespace(string[i])
         THEN GetWordsFrom(string, i + 1, <<>>,
                           IF current = <<>> THEN out ELSE Append(out, current))
         ELSE GetWordsFrom(string, i + 1, Append(current, string[i]), out)
get_words(string) == GetWordsFrom(string, 1, <<>>, <<>>)

\* split_word, lines 17-24: i runs over 0..word.len(), the length in bytes;
\* chars().nth(i).unwrap() panics once i reaches the number of chars
RECURSIVE StartingLoop(_, _, _)
StartingLoop(word, i, starting_punctuations) ==
    IF i >= ByteLen(word) THEN Ok(<<starting_punctuations, <<>>>>)
    ELSE IF i >= Len(word) THEN Panic
    ELSE IF ~is_alphanumeric(word[i + 1])
         THEN StartingLoop(word, i + 1, Append(starting_punctuations, word[i + 1]))
         ELSE Ok(<<starting_punctuations, SubSeq(word, i + 1, Len(word))>>)

\* split_word, lines 25-32: i runs down from middle_word.len() - 1, in bytes;
\* each trailing char is pushed as it is met, the last one first
RECURSIVE EndingLoop(_, _, _)
EndingLoop(middle_word, i, ending_punctuations) ==
    IF i < 0 THEN Ok(<<middle_word, ending_punctuations>>)
    ELSE IF i >= Len(middle_word) THEN Panic
    ELSE IF ~is_alphanumeric(middle_word[i + 1])
         THEN EndingLoop(middle_word, i - 1, Append(ending_punctuations, middle_word[i + 1]))
         ELSE Ok(<<SubSeq(middle_word, 1, i + 1), ending_punctuations>>)

split_word(word) ==
    LET first == StartingLoop(word, 0, <<>>)
    IN  IF first.kind # "Ok" THEN Panic
        ELSE LET second == EndingLoop(first.val[2], ByteLen(first.val[2]) - 1, <<>>)
             IN  IF second.kind # "Ok" THEN Panic
                 ELSE Ok(<<first.val[1], second.val[1], second.val[2]>>)

\* split_input: split_word of every token, a panic of one is a panic of all
RECURSIVE SplitWords(_, _, _)
SplitWords(tokens, i, out) ==
    IF i > Len(tokens) THEN Ok(out)
    ELSE LET parts == split_word(tokens[i])
         IN  IF parts.kind # "Ok" THEN Panic
             ELSE SplitWords(tokens, i + 1, Append(out, parts.val))
split_input(string) == SplitWords(get_words(string), 1, <<>>)

\* join_word: format!("{}{}{}", parts.0, parts.1, parts.2)
join_word(parts) == parts[1] \o parts[2] \o parts[3]

\* join_input: the joined words with one space between two of them
RECURSIVE JoinFrom(_, _)
JoinFrom(split_words, i) ==
    IF i > Len(split_words) THEN <<>>
    ELSE IF i = Len(split_words) THEN join_word(split_words[i])
    ELSE join_word(split_words[i]) \o <<32>> \o JoinFrom(split_words, i + 1)
join_input(split_words) == JoinFrom(split_words, 1)

\* the texts, and the tokens: the texts without whitespace
Texts == UNION {[1..n -> SplitChars] : n \in 0..MaxText}
SplitTokens == {t \in Texts : t # <<>> /\ \A i \in DOMAIN t : ~is_whitespace(t[i])}

InitSplit ==
    /\ NoTree
    /\ NoBloom
    /\ NoFiles
    /\ ret = [op |-> "new", word |-> <<>>, other |-> <<>>, tol |-> 0, res |-> Ok(0)]

SplitWord(word) ==
    /\ ret' = [op |-> "split_word", word |-> word, other |-> <<>>, tol |-> 0,
               res |-> split_word(word)]
    /\ UNCHANGED <<bk, words, added, tables, bf, files>>

\* join_input(split_input(string))
SplitJoin(string) ==
    /\ LET split_words == split_input(string)
       IN  ret' = [op |-> "join_input", word |-> string, other |-> <<>>, tol |-> 0,
                   res |-> IF split_words.kind # "Ok" THEN Panic
                           ELSE Ok(join_input(split_words.val))]
    /\ UNCHANGED <<bk, words, added, tables, bf, files>>

NextSplit ==
    \/ \E word \in SplitTokens : SplitWord(word)
    \/ \E string \in Texts : SplitJoin(string)

SpecSplit == InitSplit /\ [][NextSplit]_vars

\* every char of run is not alphanumeric
IsPunctuation(run) == \A i \in DOMAIN run : ~is_alphanumeric(run[i])
\* core is empty, or starts and ends with an alphanumeric char
IsCore(core) ==
    core # <<>> => (is_alphanumeric(core[1]) /\ is_alphanumeric(core[Len(core)]))
\* the tokens of the text are separated by single spaces
SingleSpaced(string) ==
    /\ \A i \in DOMAIN string : is_whitespace(string[i]) => string[i] = 32
    /\ string # <<>> => (string[1] # 32 /\ string[Len(string)] # 32)
    /\ \A i \in 1..(Len(string) - 1) : ~(string[i] = 32 /\ string[i + 1] = 32)

\* C17: for a whitespace-free token split_word returns (leading run of
\* non-alphanumeric chars, core, trailing run of non-alphanumeric chars) whose
\* concatenation in that order is the token; join_input(split_input(s)) = s
\* for every text s whose tokens are separated by single spaces.
SplitThenJoin ==
    /\ ret.op = "split_word" =>
          /\ ret.res.kind = "Ok"
          /\ IsPunctuation(ret.res.val[1])
          /\ IsCore(ret.res.val[2])
          /\ IsPunctuation(ret.res.val[3])
          /\ join_word(ret.res.val) = ret.word
    /\ (ret.op = "join_input" /\ SingleSpaced(ret.word)) =>
          (ret.res.kind = "Ok" /\ ret.res.val = ret.word)

\* the chars of the token take one byte each, and at most one char follows
\* its last alphanumeric char
PlainToken(word) ==
    /\ ByteLen(word) = Len(word)
    /\ \A i \in 1..(Len(word) - 2) :
          is_alphanumeric(word[i]) =>
              (is_alphanumeric(word[Len(word) - 1]) \/ is_alphanumeric(word[Len(word)]))

\* C17 holds of the tokens of one-byte chars with at most one trailing
\* punctuation char, and of the texts made of them: supporting fact
SplitThenJoinPlain ==
    /\ (ret.op = "split_word" /\ PlainToken(ret.word)) =>
          /\ ret.res.kind = "Ok"
          /\ IsPunctuation(ret.res.val[1])
          /\ IsCore(ret.res.val[2])
          /\ IsPunctuation(ret.res.val[3])
          /\ join_word(ret.res.val) = ret.word
    /\ (ret.op = "join_input" /\ SingleSpaced(ret.word)
            /\ \A i \in DOMAIN get_words(ret.word) : PlainToken(get_words(ret.word)[i])) =>
          (ret.res.kind = "Ok" /\ ret.res.val = ret.word)


(***************************************************************************)
(* convert_case(sugg, orig): the chosen word in the letter case of the     *)
(* token it replaces.                                                      *)
(***************************************************************************)
\* longest suggestion and longest original token, in chars
MaxCase == 2
\* the chars of the words: a, A, e-acute (two bytes), the digit 1, '!'
CaseChars == {97, 65, 233, 49, 33}
CaseWords == UNION {[1..n -> CaseChars] : n \in 0..MaxCase}

\* convert_case, lines 136-146: i runs over 0..sugg.len(), the length in
\* bytes; sugg.chars().nth(i).unwrap() panics once i reaches the number of
\* chars; no arm pushes when the char of orig has no case
RECURSIVE ConvertLoop(_, _, _, _)
ConvertLoop(sugg, orig, i, result) ==
    IF i >= ByteLen(sugg) THEN Ok(result)
    ELSE IF i >= Len(sugg) THEN Panic
    ELSE IF i >= Len(orig)
         THEN ConvertLoop(sugg, orig, i + 1, Append(result, sugg[i + 1]))
    ELSE IF ~is_alphanumeric(sugg[i + 1])
         THEN ConvertLoop(sugg, orig, i + 1, Append(result, sugg[i + 1]))
    ELSE IF is_lowercase(orig[i + 1])
         THEN ConvertLoop(sugg, orig, i + 1, Append(result, CharToLower(sugg[i + 1])))
    ELSE IF is_uppercase(orig[i + 1])
         THEN ConvertLoop(sugg, orig, i + 1, Append(result, CharToUpper(sugg[i + 1])))
    ELSE ConvertLoop(sugg, orig, i + 1, result)
convert_case(sugg, orig) == ConvertLoop(sugg, orig, 0, <<>>)

\* the suggestion (word) and the original token (other) are chosen
InitCase ==
    /\ NoTree
    /\ NoBloom
    /\ NoFiles
    /\ \E sugg \in CaseWords, orig \in CaseWords :
          ret = [op |-> "new", word |-> sugg, other |-> orig, tol |-> 0, res |-> Ok(<<>>)]

ConvertCase ==
    /\ ret.op = "new"
    /\ ret' = [ret EXCEPT !.op = "convert_case", !.res = convert_case(ret.word, ret.other)]
    /\ UNCHANGED <<bk, words, added, tables, bf, files>>

NextCase == ConvertCase

SpecCase == InitCase /\ [][NextCase]_vars

\* the same char, up to letter case
SameUpToCase(c, d) == CharToLower(c) = CharToLower(d)

\* C18: convert_case(sugg, orig) only changes letter case: the result has as
\* many chars as sugg and at each position the char of sugg up to case,
\* whatever chars orig holds and whatever its length.
OnlyCaseChanges ==
    ret.op = "convert_case" =>
        /\ ret.res.kind = "Ok"
        /\ Len(ret.res.val) = Len(ret.word)
        /\ \A i \in DOMAIN ret.word : SameUpToCase(ret.res.val[i], ret.word[i])

\* the chars of sugg take one byte each, and orig has a letter wherever sugg
\* has a letter or a digit
Cased(sugg, orig) ==
    /\ ByteLen(sugg) = Len(sugg)
    /\ \A i \in DOMAIN sugg \cap DOMAIN orig :
          is_alphanumeric(sugg[i]) => (is_lowercase(orig[i]) \/ is_uppercase(orig[i]))

\* C18 holds when every char of orig that meets a letter or digit of sugg is
\* a letter, and sugg has one-byte chars only: supporting fact
OnlyCaseChangesCased ==
    (ret.op = "convert_case" /\ Cased(ret.word, ret.other)) =>
        /\ ret.res.kind = "Ok"
        /\ Len(ret.res.val) = Len(ret.word)
        /\ \A i \in DOMAIN ret.word : SameUpToCase(ret.res.val[i], ret.word[i])

=============================================================================
